---- MODULE Spec2Model ----
(***************************************************************************)
(* Model of gdax.order_book.OrderBook: the live order book kept from a     *)
(* level-3 snapshot (PublicClient.get_product_order_book) and the feed     *)
(* messages handed to OrderBook.on_message.                                *)
(*                                                                         *)
(* A feed message and a stored order are records; a key the Python dict    *)
(* does not hold is a field the record does not have, so that a KeyError   *)
(* is a read outside DOMAIN.  Each side of the book is a function from a   *)
(* Decimal price to a price level, a function from order id to order.      *)
(* An exception leaving a method is the field exc of the method's result.  *)
(***************************************************************************)
EXTENDS Integers, Sequences, FiniteSets, TLC

\* ------------------------------------------------------------------ bounds

\* Largest sequence number a feed message or a snapshot carries.
MaxSeq == 3

\* Largest sequence number of a message of the feed of SpecDiff.
MaxDiffSeq == 2

\* ------------------------------------------------------------- dict helpers

Has(d, k) == k \in DOMAIN d

Put(d, k, v) == (k :> v) @@ d

Del(d, k) == [j \in (DOMAIN d) \ {k} |-> d[j]]

EmptyDict == [j \in {} |-> 0]

\* Decimal(str): the wire strings of prices and sizes read as exact numbers.
Decimal(s) ==
  CASE s = "0" -> 0
    [] s = "1" -> 1
    [] s = "2" -> 2
    [] s = "3" -> 3
    [] s = "4" -> 4

\* ------------------------------------------------------------------- state

VARIABLES
  bids,            \* self._bids: price -> (order id -> order)
  asks,            \* self._asks
  sequence,        \* self._sequence
  current_ticker,  \* self._current_ticker
  msg,             \* the message of the last on_message call
  snap,            \* the response of the last get_product_order_book that returned
  outcome,         \* how the last on_message call ended
  lastApplied,     \* sequence of the last message on_message ran to line 86 for
  lastDiff,        \* sequence of the last message whose diff was applied
  resyncFailed,    \* the last call of get_product_order_book raised
  run,             \* the on_message call under way, statement by statement
  seen,            \* what the last get_bid, get_ask, get_bids or get_asks returned
  reader,          \* the get_current_book call of the reading thread
  client           \* the WebsocketClient and its listener thread

vars ==
  <<bids, asks, sequence, current_ticker, msg, snap, outcome, lastApplied,
    lastDiff, resyncFailed, run, seen, reader, client>>

NoTicker == [type |-> "None"]

NoMessage == [type |-> "None"]

NoSnapshot == [sequence |-> -1, bids |-> <<>>, asks |-> <<>>]

\* A call of get_product_order_book: it returns res, or it raises.
FetchFailed == [ok |-> FALSE, res |-> NoSnapshot]

Fetched(res) == [ok |-> TRUE, res |-> res]

\* The object while a method runs: the fields of self, the exception in flight
\* (exc), the calls of on_orderbook_change so far (notified), the snapshots
\* reset_book loaded so far, in order (loaded), and the branch on_message took
\* (path).
Self ==
  [bids |-> bids, asks |-> asks, sequence |-> sequence,
   current_ticker |-> current_ticker, snap |-> snap,
   exc |-> "none", notified |-> 0, loaded |-> <<>>, path |-> "none"]

Raise(self, e) == [self EXCEPT !.exc = e]

\* side = self._bids if order['side'] == 'buy' else self._asks
SideOf(self, side) == IF side = "buy" THEN self.bids ELSE self.asks

SetSide(self, side, d) ==
  IF side = "buy" THEN [self EXCEPT !.bids = d] ELSE [self EXCEPT !.asks = d]

\* ------------------------------------------------------- diff operations

_add(self, order) ==
  IF \/ ~(Has(order, "order_id") \/ Has(order, "id"))
     \/ ~Has(order, "side")
     \/ ~Has(order, "price")
     \/ ~(Has(order, "size") \/ Has(order, "remaining_size"))
  THEN Raise(self, "KeyError")
  ELSE LET o == [id    |-> IF Has(order, "order_id") THEN order.order_id ELSE order.id,
                 side  |-> order.side,
                 price |-> Decimal(order.price),
                 size  |-> Decimal(IF Has(order, "size") THEN order.size
                                   ELSE order.remaining_size)]
           side == SideOf(self, o.side)
       IN  IF ~Has(side, o.price)
           THEN SetSide(self, o.side, Put(side, o.price, (o.id :> o)))
           ELSE SetSide(self, o.side, Put(side, o.price, Put(side[o.price], o.id, o)))

_remove_keeps_level(self, order) ==
  IF ~Has(order, "order_id") \/ ~Has(order, "price") \/ ~Has(order, "side")
  THEN Raise(self, "KeyError")
  ELSE LET id    == order.order_id
           price == Decimal(order.price)
           side  == SideOf(self, order.side)
       IN  IF ~Has(side, price) THEN self
           ELSE IF ~Has(side[price], id) THEN Raise(self, "KeyError")
           ELSE SetSide(self, order.side, Put(side, price, Del(side[price], id)))

_remove(self, order) ==
  IF ~Has(order, "order_id") \/ ~Has(order, "price") \/ ~Has(order, "side")
  THEN Raise(self, "KeyError")
  ELSE LET id    == order.order_id
           price == Decimal(order.price)
           side  == SideOf(self, order.side)
       IN  IF ~Has(side, price) THEN self
           ELSE IF ~Has(side[price], id) THEN Raise(self, "KeyError")
           ELSE LET level == Del(side[price], id)
                IN  IF Cardinality(DOMAIN level) = 0
                    THEN SetSide(self, order.side, Del(side, price))
                    ELSE SetSide(self, order.side, Put(side, price, level))

_match_sets_size(self, order) ==
  IF ~Has(order, "size") \/ ~Has(order, "price") \/ ~Has(order, "side")
  THEN Raise(self, "KeyError")
  ELSE LET size  == Decimal(order.size)
           price == Decimal(order.price)
           side  == SideOf(self, order.side)
       IN  IF ~Has(side, price) \/ DOMAIN side[price] = {} THEN self
           ELSE IF ~Has(order, "maker_order_id") THEN Raise(self, "KeyError")
           ELSE IF ~Has(side[price], order.maker_order_id) THEN Raise(self, "TypeError")
           ELSE LET id  == order.maker_order_id
                    bid == side[price][id]
                IN  IF bid.size = size
                    THEN LET level == Del(side[price], id)
                         IN  IF Cardinality(DOMAIN level) = 0
                             THEN SetSide(self, order.side, Del(side, price))
                             ELSE SetSide(self, order.side, Put(side, price, level))
                    ELSE SetSide(self, order.side,
                           Put(side, price,
                               Put(side[price], id, [bid EXCEPT !.size = size])))

_match(self, order) ==
  IF ~Has(order, "size") \/ ~Has(order, "price") \/ ~Has(order, "side")
  THEN Raise(self, "KeyError")
  ELSE LET size  == Decimal(order.size)
           price == Decimal(order.price)
           side  == SideOf(self, order.side)
       IN  IF ~Has(side, price) \/ DOMAIN side[price] = {} THEN self
           ELSE IF ~Has(order, "maker_order_id") THEN Raise(self, "KeyError")
           ELSE IF ~Has(side[price], order.maker_order_id) THEN Raise(self, "TypeError")
           ELSE LET id  == order.maker_order_id
                    bid == side[price][id]
                IN  IF bid.size = size
                    THEN LET level == Del(side[price], id)
                         IN  IF Cardinality(DOMAIN level) = 0
                             THEN SetSide(self, order.side, Del(side, price))
                             ELSE SetSide(self, order.side, Put(side, price, level))
                    ELSE SetSide(self, order.side,
                           Put(side, price,
                               Put(side[price], id, [bid EXCEPT !.size = @ - size])))

_change(self, order) ==
  IF ~Has(order, "new_size") THEN self
  ELSE IF ~Has(order, "price") THEN self
  ELSE IF ~Has(order, "side") THEN Raise(self, "KeyError")
  ELSE LET new_size == Decimal(order.new_size)
           price    == Decimal(order.price)
           side     == SideOf(self, order.side)
       IN  IF ~Has(side, price) THEN Raise(self, "AttributeError")
           ELSE IF ~Has(order, "order_id") THEN Raise(self, "KeyError")
           ELSE IF ~Has(side[price], order.order_id) THEN self
           ELSE LET bid == side[price][order.order_id]
                IN  SetSide(self, order.side,
                      Put(side, price,
                          Put(side[price], bid.id, [bid EXCEPT !.size = new_size])))

on_orderbook_change(self) == [self EXCEPT !.notified = @ + 1]

\* ------------------------------------------------------------- resync

\* for bid in res['bids']: self._add({'id', 'side', 'price', 'size'})
RECURSIVE AddAll(_, _, _)
AddAll(self, entries, side) ==
  IF entries = <<>> THEN self
  ELSE AddAll(_add(self, [id    |-> Head(entries)[3],
                          side  |-> side,
                          price |-> Head(entries)[1],
                          size  |-> Head(entries)[2]]),
              Tail(entries), side)

reset_book_keeps_sequence(self, fetch) ==
  IF ~fetch.ok THEN Raise(self, "FetchError")
  ELSE LET res   == fetch.res
           added == AddAll(AddAll(self, res.bids, "buy"), res.asks, "sell")
       IN  [added EXCEPT !.snap = res, !.loaded = Append(@, res)]

reset_book(self, fetch) ==
  IF ~fetch.ok THEN Raise(self, "FetchError")
  ELSE LET res    == fetch.res
           added == AddAll(AddAll(self, res.bids, "buy"), res.asks, "sell")
       IN  [added EXCEPT !.sequence = res.sequence, !.snap = res,
                         !.loaded = Append(@, res)]

on_sequence_gap(self, fetch) == reset_book(self, fetch)

\* ------------------------------------------------------------- on_message

\* The else branch of on_message, lines 72-86.
Dispatch(self, message) ==
  IF ~Has(message, "type") THEN Raise(self, "KeyError")
  ELSE LET done ==
         IF message.type = "open" THEN
           LET a == _add(self, message)
           IN  IF a.exc # "none" THEN a ELSE on_orderbook_change(a)
         ELSE IF message.type = "done" /\ Has(message, "price") THEN
           LET a == _remove(self, message)
           IN  IF a.exc # "none" THEN a ELSE on_orderbook_change(a)
         ELSE IF message.type = "match" THEN
           LET a == _match(self, message)
           IN  IF a.exc # "none" THEN a
               ELSE on_orderbook_change([a EXCEPT !.current_ticker = message])
         ELSE IF message.type = "change" THEN
           LET a == _change(self, message)
           IN  IF a.exc # "none" THEN a ELSE on_orderbook_change(a)
         ELSE self
       IN IF done.exc # "none" THEN done
          ELSE [done EXCEPT !.sequence = message.sequence]

IsStale_lt(s, cur) == s < cur

\* if sequence <= self._sequence: pass
IsStale(s, cur) == s <= cur

\* fetch1 is what get_product_order_book does when line 66 calls reset_book,
\* fetch2 what it does when line 70 calls on_sequence_gap.
on_message(self, message, fetch1, fetch2) ==
  IF ~Has(message, "sequence") THEN [self EXCEPT !.path = "nosequence"]
  ELSE LET s  == message.sequence
           s1 == IF self.sequence = -1 THEN reset_book(self, fetch1) ELSE self
       IN  IF s1.exc # "none" THEN [s1 EXCEPT !.path = "unclassified"]
           ELSE IF IsStale(s, s1.sequence) THEN [s1 EXCEPT !.path = "stale"]
           ELSE IF s > s1.sequence + 1
                THEN [on_sequence_gap(s1, fetch2) EXCEPT !.path = "gap"]
           ELSE [Dispatch(s1, message) EXCEPT !.path = "inorder"]

\* Whether on_message(message) reaches line 66, and line 70 after fetch1.
CallsReset(message) == Has(message, "sequence") /\ sequence = -1

CallsGap(message, fetch1) ==
  /\ Has(message, "sequence")
  /\ LET s1 == IF sequence = -1 THEN reset_book(Self, fetch1) ELSE Self
     IN  s1.exc = "none" /\ message.sequence > s1.sequence + 1

\* ------------------------------------------------------- statement steps

\* One on_message call as the statements that read or write self, in the
\* order the code runs them.  The listener thread runs one statement at a
\* time; another thread may run between any two of them.

\* The part of self a reader can tell two states apart by.
Stable(self) == [sequence |-> self.sequence, bids |-> self.bids, asks |-> self.asks]

\* self as it is now, with the depth the listener thread holds self._lock at.
Now ==
  [bids |-> bids, asks |-> asks, sequence |-> sequence,
   current_ticker |-> current_ticker, snap |-> snap, lock |-> run.lock]

Acquire == [op |-> "acquire"]

Release == [op |-> "release"]

\* An exception leaves the call; the with blocks it unwinds release the lock.
RaiseOp == [op |-> "raise"]

SetSequence(s) == [op |-> "set_sequence", value |-> s]

Raises(ops) == ops # <<>> /\ ops[Len(ops)].op = "raise"

\* The effect of one statement on self.
Do(st, s) ==
  CASE s.op = "acquire" -> [st EXCEPT !.lock = @ + 1]
    [] s.op = "release" -> [st EXCEPT !.lock = @ - 1]
    [] s.op = "raise" -> [st EXCEPT !.lock = 0]
    [] s.op = "fetched" -> [st EXCEPT !.snap = s.res]
    [] s.op = "put_order" ->
         LET o == s.order
             side == SideOf(st, o.side)
         IN  IF ~Has(side, o.price)
             THEN SetSide(st, o.side, Put(side, o.price, (o.id :> o)))
             ELSE SetSide(st, o.side, Put(side, o.price, Put(side[o.price], o.id, o)))
    [] s.op = "del_order" ->
         LET side == SideOf(st, s.side)
         IN  SetSide(st, s.side, Put(side, s.price, Del(side[s.price], s.id)))
    [] s.op = "del_level" ->
         SetSide(st, s.side, Del(SideOf(st, s.side), s.price))
    [] s.op = "set_size" ->
         LET side == SideOf(st, s.side)
         IN  SetSide(st, s.side,
               Put(side, s.price,
                   Put(side[s.price], s.id, [side[s.price][s.id] EXCEPT !.size = s.size])))
    [] s.op = "set_ticker" -> [st EXCEPT !.current_ticker = s.message]
    [] s.op = "set_sequence" -> [st EXCEPT !.sequence = s.value]

RECURSIVE DoAll(_, _)
DoAll(st, ops) == IF ops = <<>> THEN st ELSE DoAll(Do(st, Head(ops)), Tail(ops))

\* _add, lines 96-110.
AddSteps(st, order) ==
  IF \/ ~(Has(order, "order_id") \/ Has(order, "id"))
     \/ ~Has(order, "side")
     \/ ~Has(order, "price")
     \/ ~(Has(order, "size") \/ Has(order, "remaining_size"))
  THEN <<RaiseOp>>
  ELSE LET o == [id    |-> IF Has(order, "order_id") THEN order.order_id ELSE order.id,
                 side  |-> order.side,
                 price |-> Decimal(order.price),
                 size  |-> Decimal(IF Has(order, "size") THEN order.size
                                   ELSE order.remaining_size)]
       IN  <<Acquire, [op |-> "put_order", order |-> o], Release>>

\* _remove, lines 112-121: del bids[id], then del side[price] when the level
\* is left empty.
RemoveSteps(st, order) ==
  IF ~Has(order, "order_id") \/ ~Has(order, "price") \/ ~Has(order, "side")
  THEN <<RaiseOp>>
  ELSE LET id    == order.order_id
           price == Decimal(order.price)
           side  == SideOf(st, order.side)
           slot  == [side |-> order.side, price |-> price, id |-> id]
       IN  IF ~Has(side, price) THEN <<Acquire, Release>>
           ELSE IF ~Has(side[price], id) THEN <<Acquire, RaiseOp>>
           ELSE <<Acquire, [op |-> "del_order"] @@ slot>>
                  \o (IF Cardinality(DOMAIN side[price]) = 1
                      THEN <<[op |-> "del_level"] @@ slot>> ELSE <<>>)
                  \o <<Release>>

\* _match, lines 123-136.
MatchSteps(st, order) ==
  IF ~Has(order, "size") \/ ~Has(order, "price") \/ ~Has(order, "side")
  THEN <<RaiseOp>>
  ELSE LET size  == Decimal(order.size)
           price == Decimal(order.price)
           side  == SideOf(st, order.side)
       IN  IF ~Has(side, price) \/ DOMAIN side[price] = {} THEN <<Acquire, Release>>
           ELSE IF ~Has(order, "maker_order_id") THEN <<Acquire, RaiseOp>>
           ELSE IF ~Has(side[price], order.maker_order_id) THEN <<Acquire, RaiseOp>>
           ELSE LET slot == [side |-> order.side, price |-> price,
                             id |-> order.maker_order_id]
                    bid  == side[price][order.maker_order_id]
                IN  IF bid.size = size
                    THEN <<Acquire, [op |-> "del_order"] @@ slot>>
                           \o (IF Cardinality(DOMAIN side[price]) = 1
                               THEN <<[op |-> "del_level"] @@ slot>> ELSE <<>>)
                           \o <<Release>>
                    ELSE <<Acquire,
                           [op |-> "set_size", size |-> bid.size - size] @@ slot,
                           Release>>

\* _change, lines 138-155.
ChangeSteps(st, order) ==
  IF ~Has(order, "new_size") THEN <<>>
  ELSE IF ~Has(order, "price") THEN <<>>
  ELSE IF ~Has(order, "side") THEN <<RaiseOp>>
  ELSE LET price == Decimal(order.price)
           side  == SideOf(st, order.side)
       IN  IF ~Has(side, price) THEN <<Acquire, RaiseOp>>
           ELSE IF ~Has(order, "order_id") THEN <<Acquire, RaiseOp>>
           ELSE IF ~Has(side[price], order.order_id) THEN <<Acquire, Release>>
           ELSE <<Acquire,
                  [op |-> "set_size", side |-> order.side, price |-> price,
                   id |-> order.order_id, size |-> Decimal(order.new_size)],
                  Release>>

\* The _add calls of one loop of reset_book, lines 44-57.
RECURSIVE AddAllSteps(_, _, _)
AddAllSteps(st, entries, side) ==
  IF entries = <<>> THEN <<>>
  ELSE LET one == AddSteps(st, [id    |-> Head(entries)[3],
                                side  |-> side,
                                price |-> Head(entries)[1],
                                size  |-> Head(entries)[2]])
       IN  one \o AddAllSteps(DoAll(st, one), Tail(entries), side)

\* reset_book, lines 41-58: everything runs with the lock held.
ResetSteps(st, fetch) ==
  IF ~fetch.ok THEN <<Acquire, RaiseOp>>
  ELSE LET res == fetch.res
       IN  <<Acquire, [op |-> "fetched", res |-> res]>>
             \o AddAllSteps(st, res.bids, "buy")
             \o AddAllSteps(st, res.asks, "sell")
             \o <<SetSequence(res.sequence), Release>>

\* The else branch of on_message, lines 72-86.
DispatchSteps(st, message) ==
  IF ~Has(message, "type") THEN <<RaiseOp>>
  ELSE LET ops ==
         IF message.type = "open" THEN AddSteps(st, message)
         ELSE IF message.type = "done" /\ Has(message, "price")
           THEN RemoveSteps(st, message)
         ELSE IF message.type = "match" THEN
           LET m == MatchSteps(st, message)
           IN  IF Raises(m) THEN m
               ELSE m \o <<[op |-> "set_ticker", message |-> message]>>
         ELSE IF message.type = "change" THEN ChangeSteps(st, message)
         ELSE <<>>
       IN  IF Raises(ops) THEN ops ELSE ops \o <<SetSequence(message.sequence)>>

\* on_message, lines 60-86.
MessageSteps(st, message, fetch1, fetch2) ==
  IF ~Has(message, "sequence") THEN <<>>
  ELSE LET s     == message.sequence
           first == IF st.sequence = -1 THEN ResetSteps(st, fetch1) ELSE <<>>
           s1    == DoAll(st, first)
       IN  IF Raises(first) THEN first
           ELSE IF IsStale(s, s1.sequence) THEN first
           ELSE IF s > s1.sequence + 1 THEN first \o ResetSteps(s1, fetch2)
           ELSE first \o DispatchSteps(s1, message)

\* The statements up to the one that ends the mutation under way: the
\* assignment of self._sequence that closes a snapshot load or an event.
RECURSIVE ToBoundary(_)
ToBoundary(ops) ==
  IF ops = <<>> THEN <<>>
  ELSE IF Head(ops).op = "set_sequence" THEN <<Head(ops)>>
  ELSE <<Head(ops)>> \o ToBoundary(Tail(ops))

\* ------------------------------------------------------------- queries

\* operator.neg, the key function of self._bids; self._asks has none.
Neg(x) == 0 - x

\* The least of the values a SortedDict sorts its keys by.
First(sortkeys) == CHOOSE v \in sortkeys : \A w \in sortkeys : v <= w

\* None and a returned price.
None == <<>>

Some(p) == <<p>>

\* prices[0] of self._asks.keys(): the keys are sorted by themselves.
get_ask(self) ==
  LET prices == DOMAIN self.asks
  IN  IF prices = {} THEN None ELSE Some(First(prices))

get_asks(self, price) == IF Has(self.asks, price) THEN self.asks[price] ELSE EmptyDict

get_bid_lowest(self) ==
  LET prices == DOMAIN self.bids
  IN  IF prices = {} THEN None ELSE Some(First(prices))

\* prices[0] of self._bids.keys(): the keys are sorted by operator.neg, so the
\* first key is the one whose negation is least.
get_bid(self) ==
  LET prices == DOMAIN self.bids
  IN  IF prices = {} THEN None
      ELSE Some(CHOOSE p \in prices : Neg(p) = First({Neg(q) : q \in prices}))

get_bids(self, price) == IF Has(self.bids, price) THEN self.bids[price] ELSE EmptyDict

\* One call of a query method by name.
Query(self, op, price) ==
  CASE op = "get_ask" -> get_ask(self)
    [] op = "get_asks" -> get_asks(self, price)
    [] op = "get_bid" -> get_bid(self)
    [] op = "get_bids" -> get_bids(self, price)

\* for price, asks in self._asks.items(): for order in asks: the inner loop
\* runs over the keys of the level, the order ids, and order['price'] on an
\* id raises TypeError.
get_current_book(self, seq) ==
  LET keys(side) == UNION {DOMAIN side[p] : p \in DOMAIN side}
  IN  IF keys(self.asks) # {} \/ keys(self.bids) # {}
      THEN [exc |-> "TypeError", sequence |-> seq, asks |-> <<>>, bids |-> <<>>]
      ELSE [exc |-> "none", sequence |-> seq, asks |-> <<>>, bids |-> <<>>]

NotSeen == [op |-> "none"]

NotReading == [pc |-> "idle", returned |-> FALSE]

\* -------------------------------------------------------- websocket client

\* Most frames the socket hands to one connection.
MaxFrames == 3

\* self.listeners: the OrderBook and one more WebsocketListener.
Listeners == {"book", "other"}

\* What self._ws.recv() returns: the text of a message, text that is not
\* JSON, or no data.
JsonFrame(message) == [kind |-> "json", msg |-> message]

GarbageFrame == [kind |-> "garbage"]

EmptyFrame == [kind |-> "empty"]

NoFrame == [kind |-> "none"]

\* json.loads(data): the message, or ValueError.
json_loads(data) ==
  IF data.kind = "json" THEN [ok |-> TRUE, msg |-> data.msg]
  ELSE [ok |-> FALSE, msg |-> NoMessage]

\* The client once __init__ has returned: connected, the thread of _go
\* started.  pc is where that thread is, closing whether close() was called,
\* delivered and disconnects count the on_message and on_disconnect calls made
\* on each listener.
NewClient ==
  [stop |-> FALSE, error |-> "None", ws |-> "open", pc |-> "loop",
   closing |-> FALSE, frame |-> NoFrame, frames |-> 0,
   delivered |-> [l \in Listeners |-> 0],
   disconnects |-> [l \in Listeners |-> 0]]

on_error(c, e) == [c EXCEPT !.error = e, !.stop = TRUE]

on_close(c) == [c EXCEPT !.disconnects = [l \in Listeners |-> @[l] + 1]]

_disconnect_without_on_close(c) == [c EXCEPT !.ws = "closed"]

_disconnect(c) == on_close([c EXCEPT !.ws = "closed"])

\* close(), line 123; the join of line 124 only waits.
close(c) == [c EXCEPT !.stop = TRUE, !.closing = TRUE]

\* ------------------------------------------------------------- inputs

Seqs == 0 .. MaxSeq

Without(m, k) == [j \in (DOMAIN m) \ {k} |-> m[j]]

\* The three snapshot books of the model, as get_product_order_book returns
\* them: lists of [price, size, order_id].
SnapshotBooks ==
  { [bids |-> <<>>, asks |-> <<>>],
    [bids |-> << <<"1", "2", "A">> >>, asks |-> << <<"2", "1", "B">> >>],
    [bids |-> << <<"1", "2", "A">>, <<"1", "1", "B">> >>, asks |-> <<>>] }

Snapshots ==
  {[sequence |-> s, bids |-> b.bids, asks |-> b.asks] : s \in Seqs, b \in SnapshotBooks}

Fetches == {FetchFailed} \cup {Fetched(res) : res \in Snapshots}

\* A message without a sequence number (a heartbeat, a subscription reply).
NoSequenceMessages == {[type |-> "heartbeat"]}

\* The feed of specification Spec: one message of each kind the book reads,
\* and one it does not, under every sequence number.
SeqMessages ==
  {[type |-> "open", sequence |-> s, side |-> "sell", price |-> "2",
    remaining_size |-> "1", order_id |-> "B"] : s \in Seqs}
  \cup {[type |-> "match", sequence |-> s, side |-> "buy", price |-> "1",
         size |-> "1", maker_order_id |-> "A"] : s \in Seqs}
  \cup {[type |-> "done", sequence |-> s, side |-> "buy", price |-> "1",
         order_id |-> "A"] : s \in Seqs}
  \cup {[type |-> "received", sequence |-> s, side |-> "buy",
         order_id |-> "A"] : s \in Seqs}
  \cup NoSequenceMessages

\* The feed of specification SpecDiff: every book event on four slots of the
\* book (side, price, order id), the events that lack a field, and snapshots
\* with sequence 0, so that the events 1 .. MaxDiffSeq arrive in order or
\* ahead.
DiffSeqs == 1 .. MaxDiffSeq

Slots ==
  { <<"buy", "1", "A">>, <<"buy", "1", "B">>,
    <<"sell", "2", "A">>, <<"sell", "2", "B">> }

OpenMessages ==
  {[type |-> "open", sequence |-> s, side |-> t[1], price |-> t[2],
    remaining_size |-> "1", order_id |-> t[3]] : s \in DiffSeqs, t \in Slots}

DoneMessages ==
  {[type |-> "done", sequence |-> s, side |-> t[1], price |-> t[2],
    order_id |-> t[3]] : s \in DiffSeqs, t \in Slots}

MatchMessages ==
  {[type |-> "match", sequence |-> s, side |-> t[1], price |-> t[2],
    size |-> "1", maker_order_id |-> t[3]] : s \in DiffSeqs, t \in Slots}

ChangeMessages ==
  {[type |-> "change", sequence |-> s, side |-> t[1], price |-> t[2],
    new_size |-> "2", order_id |-> t[3]] : s \in DiffSeqs, t \in Slots}

\* The messages of M on the slot (buy, "1", A).
OnFirstSlot(M) ==
  {m \in M : /\ m.side = "buy"
             /\ m.price = "1"
             /\ Has(m, "order_id") => m.order_id = "A"
             /\ Has(m, "maker_order_id") => m.maker_order_id = "A"}

MalformedMessages ==
  {Without(m, k) : m \in OnFirstSlot(OpenMessages),
                   k \in {"price", "remaining_size", "order_id"}}
  \cup {Without(m, k) : m \in OnFirstSlot(DoneMessages), k \in {"order_id", "price"}}
  \cup {Without(m, k) : m \in OnFirstSlot(MatchMessages),
                        k \in {"size", "price", "maker_order_id"}}
  \cup {Without(m, k) : m \in OnFirstSlot(ChangeMessages), k \in {"new_size", "price"}}

DiffMessages ==
  OpenMessages \cup DoneMessages \cup MatchMessages \cup ChangeMessages
    \cup MalformedMessages \cup NoSequenceMessages

DiffFetches ==
  {FetchFailed} \cup {Fetched(res) : res \in {r \in Snapshots : r.sequence = 0}}

\* ------------------------------------------------------------- machine

Init ==
  /\ bids = EmptyDict
  /\ asks = EmptyDict
  /\ sequence = -1
  /\ current_ticker = NoTicker
  /\ msg = NoMessage
  /\ snap = NoSnapshot
  /\ outcome = [path |-> "none", exc |-> "none", notified |-> 0, loaded |-> <<>>]
  /\ lastApplied = -1
  /\ lastDiff = -1
  /\ resyncFailed = FALSE
  /\ run = [todo |-> <<>>, lock |-> 0, stable |-> Stable(Self)]
  /\ seen = NotSeen
  /\ reader = NotReading
  /\ client = NewClient

OnMessage(message, fetch1, fetch2) ==
  \E r \in {on_message(Self, message, fetch1, fetch2)} :
      /\ bids' = r.bids
      /\ asks' = r.asks
      /\ sequence' = r.sequence
      /\ current_ticker' = r.current_ticker
      /\ snap' = r.snap
      /\ msg' = message
      /\ outcome' = [path |-> r.path, exc |-> r.exc, notified |-> r.notified,
                     loaded |-> r.loaded]
      /\ lastApplied' = IF r.path = "inorder" /\ r.exc = "none"
                        THEN message.sequence ELSE lastApplied
      /\ lastDiff' = IF r.path = "inorder" /\ r.notified > 0
                     THEN message.sequence ELSE lastDiff
      /\ resyncFailed' = IF r.exc = "FetchError" THEN TRUE
                         ELSE IF r.loaded # <<>> THEN FALSE
                         ELSE resyncFailed

\* The feed hands on_message a message of M; the snapshot service answers each
\* call reset_book makes with a snapshot of F, or fails.
Deliver(M, F) ==
  \E message \in M :
    \E fetch1 \in (IF CallsReset(message) THEN F ELSE {FetchFailed}) :
      \E fetch2 \in (IF CallsGap(message, fetch1) THEN F ELSE {FetchFailed}) :
        /\ OnMessage(message, fetch1, fetch2)
        /\ UNCHANGED <<run, seen, reader, client>>

Next == Deliver(SeqMessages, Fetches)

Spec == Init /\ [][Next]_vars

NextDiff == Deliver(DiffMessages, DiffFetches)

SpecDiff == Init /\ [][NextDiff]_vars

\* ------------------------------------------------------------ book feed

\* Largest sequence number of a message of the feed of SpecBook.
MaxBookSeq == 2

BookSeqs == 1 .. MaxBookSeq

\* The slots of the book of SpecBook: two orders on one bid level, a second
\* bid level and an ask level.
BookSlots ==
  { <<"buy", "1", "A">>, <<"buy", "1", "B">>, <<"buy", "2", "C">>,
    <<"sell", "3", "D">> }

\* Every book event on every slot of a set.
EventsOn(slots) ==
  {[type |-> "open", sequence |-> s, side |-> t[1], price |-> t[2],
    remaining_size |-> "1", order_id |-> t[3]] : s \in BookSeqs, t \in slots}
  \cup {[type |-> "done", sequence |-> s, side |-> t[1], price |-> t[2],
         order_id |-> t[3]] : s \in BookSeqs, t \in slots}
  \cup {[type |-> "match", sequence |-> s, side |-> t[1], price |-> t[2],
         size |-> "1", maker_order_id |-> t[3]] : s \in BookSeqs, t \in slots}
  \cup {[type |-> "change", sequence |-> s, side |-> t[1], price |-> t[2],
         new_size |-> "2", order_id |-> t[3]] : s \in BookSeqs, t \in slots}

BookMessages == EventsOn(BookSlots)

\* The snapshots of SpecBook, with sequence 0: an empty book, and a book with
\* an order on every slot.
BookSnapshots ==
  { [sequence |-> 0, bids |-> <<>>, asks |-> <<>>],
    [sequence |-> 0,
     bids |-> << <<"1", "3", "A">>, <<"1", "1", "B">>, <<"2", "1", "C">> >>,
     asks |-> << <<"3", "2", "D">> >>] }

BookFetches == {Fetched(res) : res \in BookSnapshots}

NextBook == Deliver(BookMessages, BookFetches)

SpecBook == Init /\ [][NextBook]_vars

\* The slots of the book of SpecBest: two bid prices and two ask prices.
BestSlots ==
  { <<"buy", "1", "A">>, <<"buy", "2", "C">>,
    <<"sell", "3", "D">>, <<"sell", "4", "E">> }

\* The events that add a level to the book or take one off it.
BestMessages == {m \in EventsOn(BestSlots) : m.type # "change"}

BestSnapshots ==
  { [sequence |-> 0, bids |-> <<>>, asks |-> <<>>],
    [sequence |-> 0,
     bids |-> << <<"1", "2", "A">>, <<"2", "1", "C">> >>,
     asks |-> << <<"3", "2", "D">>, <<"4", "1", "E">> >>] }

BestFetches == {Fetched(res) : res \in BestSnapshots}

NextBest == Deliver(BestMessages, BestFetches)

SpecBest == Init /\ [][NextBest]_vars

\* The events of the feed of SpecSize: on the order A, a match that trades 1
\* or 2 and a change to size 0 or 2.
SizeMessages ==
  {[type |-> "match", sequence |-> s, side |-> "buy", price |-> "1",
    size |-> z, maker_order_id |-> "A"] : s \in BookSeqs, z \in {"1", "2"}}
  \cup {[type |-> "change", sequence |-> s, side |-> "buy", price |-> "1",
         new_size |-> z, order_id |-> "A"] : s \in BookSeqs, z \in {"0", "2"}}
  \cup {[type |-> "open", sequence |-> s, side |-> "buy", price |-> "1",
         remaining_size |-> "1", order_id |-> "A"] : s \in BookSeqs}

NextSize == Deliver(SizeMessages, BookFetches)

SpecSize == Init /\ [][NextSize]_vars

\* ----------------------------------------------------------- two threads

\* The feed of SpecRead and SpecReadBook: the events that take the orders A
\* (buy at 1) and B (sell at 2) of the snapshots off the book or reduce them.
ReadSlots == { <<"buy", "1", "A">>, <<"sell", "2", "B">> }

ReadMessages ==
  {m \in DoneMessages \cup MatchMessages :
     \E t \in ReadSlots :
       /\ m.side = t[1]
       /\ m.price = t[2]
       /\ t[3] = (IF m.type = "done" THEN m.order_id ELSE m.maker_order_id)}

\* The arguments the reading thread calls the query methods with.
ReadPrices == {Decimal(t[2]) : t \in ReadSlots}

QueryOps == {"get_ask", "get_asks", "get_bid", "get_bids"}

\* The listener thread enters on_message.
Begin(message, fetch1, fetch2) ==
  /\ run.todo = <<>>
  /\ run' = [run EXCEPT !.todo = MessageSteps(Now, message, fetch1, fetch2)]
  /\ msg' = message
  /\ UNCHANGED <<bids, asks, sequence, current_ticker, snap, outcome, lastApplied,
                 lastDiff, resyncFailed, seen, reader, client>>

BeginAny(M, F) ==
  \E message \in M :
    \E fetch1 \in (IF CallsReset(message) THEN F ELSE {FetchFailed}) :
      \E fetch2 \in (IF CallsGap(message, fetch1) THEN F ELSE {FetchFailed}) :
        Begin(message, fetch1, fetch2)

\* The listener thread runs its next statement.  The assignment of
\* self._sequence completes a state of the book; a get_current_book call
\* under way in the other thread has then overlapped that state too.
Step ==
  /\ run.todo # <<>>
  /\ \E r \in {Do(Now, Head(run.todo))} :
       LET completes == Head(run.todo).op = "set_sequence"
       IN  /\ bids' = r.bids
           /\ asks' = r.asks
           /\ sequence' = r.sequence
           /\ current_ticker' = r.current_ticker
           /\ snap' = r.snap
           /\ run' = [todo   |-> Tail(run.todo),
                      lock   |-> r.lock,
                      stable |-> IF completes THEN Stable(r) ELSE run.stable]
           /\ reader' = IF completes /\ reader.pc = "has_seq"
                        THEN [reader EXCEPT !.cands = @ \cup {Stable(r)}]
                        ELSE reader
  /\ UNCHANGED <<msg, outcome, lastApplied, lastDiff, resyncFailed, seen, client>>

\* The reading thread calls get_bid, get_ask, get_bids(price) or
\* get_asks(price), lines 175-187; none of them takes the lock.  Beside the
\* returned value, seen keeps the book the call read (at), the last completed
\* state before it (pre) and the state the mutation under way completes (post).
Get(op, price) ==
  /\ seen' = [op     |-> op,
              price  |-> price,
              result |-> Query(Now, op, price),
              at     |-> [bids |-> bids, asks |-> asks],
              pre    |-> run.stable,
              post   |-> Stable(DoAll(Now, ToBoundary(run.todo)))]
  /\ UNCHANGED <<bids, asks, sequence, current_ticker, msg, snap, outcome,
                 lastApplied, lastDiff, resyncFailed, run, reader, client>>

\* get_current_book, line 162: result = {'sequence': self._sequence, ...},
\* before the lock is taken.
ReadSequence ==
  /\ reader.pc = "idle"
  /\ reader' = [pc |-> "has_seq", returned |-> FALSE, seq |-> sequence,
                cands |-> {run.stable}]
  /\ UNCHANGED <<bids, asks, sequence, current_ticker, msg, snap, outcome,
                 lastApplied, lastDiff, resyncFailed, run, seen, client>>

\* get_current_book, lines 166-173: with self._lock, the two loops; the
\* listener thread is then outside its own with blocks.
ReadOrders ==
  /\ reader.pc = "has_seq"
  /\ run.lock = 0
  /\ reader' = [pc |-> "idle", returned |-> TRUE, seq |-> reader.seq,
                cands |-> reader.cands,
                result |-> get_current_book(Now, reader.seq)]
  /\ UNCHANGED <<bids, asks, sequence, current_ticker, msg, snap, outcome,
                 lastApplied, lastDiff, resyncFailed, run, seen, client>>

NextRead ==
  \/ BeginAny(ReadMessages, DiffFetches)
  \/ Step
  \/ \E op \in QueryOps : \E price \in ReadPrices : Get(op, price)

SpecRead == Init /\ [][NextRead]_vars

NextReadBook ==
  \/ BeginAny(ReadMessages, DiffFetches)
  \/ Step
  \/ ReadSequence
  \/ ReadOrders

SpecReadBook == Init /\ [][NextReadBook]_vars

\* ----------------------------------------------------- the listener thread

\* The feed of SpecFeed: the events of ReadMessages; a done event for an
\* order already gone makes OrderBook.on_message raise.
FeedMessages == ReadMessages

\* _listen, line 95: while not self._stop.
LoopTest ==
  /\ client.pc = "loop"
  /\ client' = [client EXCEPT !.pc = IF client.stop THEN "disconnect" ELSE "recv"]
  /\ UNCHANGED <<bids, asks, sequence, current_ticker, msg, snap, outcome,
                 lastApplied, lastDiff, resyncFailed, run, seen, reader>>

\* _listen, lines 104-107: recv returns no data, the loop breaks.
RecvNothing ==
  /\ client.pc = "recv"
  /\ client.frames < MaxFrames
  /\ client' = [client EXCEPT !.frame = EmptyFrame, !.frames = @ + 1,
                              !.pc = "disconnect"]
  /\ UNCHANGED <<bids, asks, sequence, current_ticker, msg, snap, outcome,
                 lastApplied, lastDiff, resyncFailed, run, seen, reader>>

\* _listen, lines 104-113: json.loads raises ValueError, on_error(e) runs.
RecvGarbage ==
  /\ client.pc = "recv"
  /\ client.frames < MaxFrames
  /\ ~json_loads(GarbageFrame).ok
  /\ client' = [on_error(client, "ValueError") EXCEPT
                  !.frame = GarbageFrame, !.frames = @ + 1, !.pc = "loop"]
  /\ UNCHANGED <<bids, asks, sequence, current_ticker, msg, snap, outcome,
                 lastApplied, lastDiff, resyncFailed, run, seen, reader>>

\* _listen, lines 104-115, and on_message, lines 134-139: the message goes to
\* each listener in the order the set yields them (first); an exception of
\* OrderBook.on_message leaves the loop, _listen and the thread.
RecvMessage(M, F) ==
  /\ client.pc = "recv"
  /\ client.frames < MaxFrames
  /\ \E message \in M :
       \E fetch1 \in (IF CallsReset(message) THEN F ELSE {FetchFailed}) :
         \E fetch2 \in (IF CallsGap(message, fetch1) THEN F ELSE {FetchFailed}) :
           /\ json_loads(JsonFrame(message)).ok
           /\ OnMessage(json_loads(JsonFrame(message)).msg, fetch1, fetch2)
           /\ \E first \in Listeners :
                LET raised == outcome'.exc # "none"
                IN  client' =
                      [client EXCEPT
                         !.frame = JsonFrame(message),
                         !.frames = @ + 1,
                         !.delivered =
                           [l \in Listeners |->
                              IF raised /\ first = "book" /\ l # "book"
                              THEN @[l] ELSE @[l] + 1],
                         !.pc = IF raised THEN "crashed" ELSE "loop"]
  /\ UNCHANGED <<run, seen, reader>>

\* _go, line 88: _disconnect() once _listen has returned.
Disconnect ==
  /\ client.pc = "disconnect"
  /\ client' = [_disconnect(client) EXCEPT !.pc = "done"]
  /\ UNCHANGED <<bids, asks, sequence, current_ticker, msg, snap, outcome,
                 lastApplied, lastDiff, resyncFailed, run, seen, reader>>

\* Another thread calls close().
Close ==
  /\ ~client.closing
  /\ client' = close(client)
  /\ UNCHANGED <<bids, asks, sequence, current_ticker, msg, snap, outcome,
                 lastApplied, lastDiff, resyncFailed, run, seen, reader>>

NextFeed ==
  \/ LoopTest
  \/ RecvNothing
  \/ RecvGarbage
  \/ RecvMessage(FeedMessages, DiffFetches)
  \/ Disconnect
  \/ Close

SpecFeed == Init /\ [][NextFeed]_vars

\* ------------------------------------------------------------- properties

\* The side of a book that holds exactly the entries of a snapshot list.
SideOfSnapshot(entries, side) ==
  LET E == {entries[k] : k \in 1 .. Len(entries)}
  IN  [p \in {Decimal(e[1]) : e \in E} |->
        [i \in {e[3] : e \in {x \in E : Decimal(x[1]) = p}} |->
          LET e == CHOOSE x \in E : x[3] = i /\ Decimal(x[1]) = p
          IN  [id |-> i, side |-> side, price |-> p, size |-> Decimal(e[2])]]]

HoldsExactly(res) ==
  /\ bids = SideOfSnapshot(res.bids, "buy")
  /\ asks = SideOfSnapshot(res.asks, "sell")

\* The class of an event with sequence s against the store's sequence cur.
Classify(s, cur) ==
  IF s <= cur THEN "stale" ELSE IF s > cur + 1 THEN "gap" ELSE "inorder"

\* C1: after on_message met a gap (s > cur + 1) on an initialised book and the
\* snapshot was fetched, the book holds exactly the orders of that snapshot
\* and the sequence is the snapshot's; nothing of the book before the gap
\* survives and the event is not applied on top.
C1_GapResyncReplacesStore ==
  (outcome.path = "gap" /\ outcome.exc = "none" /\ Len(outcome.loaded) = 1)
    => (HoldsExactly(snap) /\ sequence = snap.sequence)

\* C2: the diff of an event is applied only when its sequence is cur + 1, and
\* the sequence numbers of the events whose diff is applied are strictly
\* increasing over the run, so no sequence number is applied twice.
C2_AppliedStrictlyIncreasing ==
  [][(outcome'.path = "inorder" /\ outcome'.notified > 0)
       => /\ msg'.sequence = 1 + (IF outcome'.loaded # <<>>
                                  THEN outcome'.loaded[1].sequence ELSE sequence)
          /\ msg'.sequence > lastDiff]_vars

\* C3: the store's sequence never decreases, across a resync too, and it is
\* always the sequence of the last applied event or of the last snapshot.
C3_SequenceMonotone ==
  [][/\ sequence' >= sequence
     /\ sequence' \in {lastApplied', snap'.sequence}]_vars

\* C4: an event with sequence s <= cur on an initialised book changes neither
\* side of the book, nor the sequence, nor the current ticker, and
\* on_orderbook_change is not called.
C4_StaleDropped ==
  [][(sequence # -1 /\ Has(msg', "sequence") /\ msg'.sequence <= sequence)
       => /\ bids' = bids
          /\ asks' = asks
          /\ sequence' = sequence
          /\ current_ticker' = current_ticker
          /\ outcome'.notified = 0
          /\ outcome'.exc = "none"]_vars

\* An applied match event was delivered again and dropped as stale.
C4_Witness ==
  /\ outcome.path = "stale"
  /\ outcome.loaded = <<>>
  /\ msg = current_ticker
  /\ msg.sequence = lastApplied
  /\ DOMAIN bids # {}

\* C5: on an event with a sequence number while the store's sequence is -1, a
\* snapshot is loaded first (unless its fetch fails) and the event is
\* classified against that snapshot's sequence; when the event is then dropped
\* or raises, the store is the snapshot and the sequence the snapshot's.
C5_InitOnFirstEvent ==
  [][(/\ sequence = -1
      /\ Has(msg', "sequence")
      /\ ~(outcome'.exc = "FetchError" /\ outcome'.loaded = <<>>))
       => /\ outcome'.loaded # <<>>
          /\ outcome'.path = Classify(msg'.sequence, outcome'.loaded[1].sequence)
          /\ (outcome'.path = "stale" \/ (outcome'.path = "inorder" /\ outcome'.exc # "none"))
               => /\ sequence' = outcome'.loaded[1].sequence
                  /\ bids' = SideOfSnapshot(outcome'.loaded[1].bids, "buy")
                  /\ asks' = SideOfSnapshot(outcome'.loaded[1].asks, "sell")
          /\ (outcome'.path = "inorder" /\ outcome'.exc = "none")
               => sequence' = outcome'.loaded[1].sequence + 1]_vars

\* The first event loaded a snapshot and was then applied as in-order.
C5_Witness ==
  /\ Len(outcome.loaded) = 1
  /\ outcome.path = "inorder"
  /\ outcome.exc = "none"
  /\ outcome.notified = 1
  /\ sequence = snap.sequence + 1
  /\ DOMAIN bids # {}

\* C10: after a snapshot fetch failed in on_message, no event is applied as
\* in-order until a snapshot has been loaded.
C10_NoApplyAfterFailedResync ==
  [][resyncFailed => ~(outcome'.path = "inorder" /\ outcome'.loaded = <<>>)]_vars

\* The store, before the call, holds no order id at price on the side.
Misses(side, price, id) ==
  LET d == IF side = "buy" THEN bids ELSE asks
  IN  ~Has(d, Decimal(price)) \/ ~Has(d[Decimal(price)], id)

\* on_message(m) takes m as the in-order event of an initialised book.
InOrder(m) == Has(m, "sequence") /\ sequence # -1 /\ m.sequence = sequence + 1

BookUnchanged == bids' = bids /\ asks' = asks

\* C6: an in-order match whose price level does not exist, or exists without
\* maker_order_id, raises nothing and leaves both sides unchanged.
C6_MatchMissIsNoOp ==
  [][(/\ InOrder(msg')
      /\ msg'.type = "match"
      /\ Has(msg', "size") /\ Has(msg', "price") /\ Has(msg', "maker_order_id")
      /\ Misses(msg'.side, msg'.price, msg'.maker_order_id))
       => (outcome'.exc = "none" /\ BookUnchanged)]_vars

\* C7: an in-order done event with a price, whose order_id is not in the book
\* (level absent, or present with other orders), raises nothing and leaves both
\* sides unchanged.
C7_RemoveMissIsNoOp ==
  [][(/\ InOrder(msg')
      /\ msg'.type = "done"
      /\ Has(msg', "price") /\ Has(msg', "order_id")
      /\ Misses(msg'.side, msg'.price, msg'.order_id))
       => (outcome'.exc = "none" /\ BookUnchanged)]_vars

\* C8: an in-order change event with new_size and price, whose price level does
\* not exist or does not hold order_id, raises nothing and leaves both sides
\* unchanged.
C8_ChangeMissIsNoOp ==
  [][(/\ InOrder(msg')
      /\ msg'.type = "change"
      /\ Has(msg', "new_size") /\ Has(msg', "price") /\ Has(msg', "order_id")
      /\ Misses(msg'.side, msg'.price, msg'.order_id))
       => (outcome'.exc = "none" /\ BookUnchanged)]_vars

\* The event lacks a field its type requires.
LacksRequired(m) ==
  CASE m.type = "open" ->
         \/ ~Has(m, "price")
         \/ ~(Has(m, "size") \/ Has(m, "remaining_size"))
         \/ ~(Has(m, "order_id") \/ Has(m, "id"))
    [] m.type = "done" -> ~Has(m, "order_id")
    [] m.type = "match" ->
         ~Has(m, "size") \/ ~Has(m, "price") \/ ~Has(m, "maker_order_id")
    [] m.type = "change" -> ~Has(m, "new_size") \/ ~Has(m, "price")
    [] OTHER -> FALSE

\* C9: an event without a sequence number, and an in-order event that lacks a
\* field its type requires, leaves the book unchanged, raises nothing and does
\* not call on_orderbook_change.
C9_MalformedAbsorbed ==
  [][(~Has(msg', "sequence") \/ (InOrder(msg') /\ LacksRequired(msg')))
       => (outcome'.exc = "none" /\ outcome'.notified = 0 /\ BookUnchanged)]_vars

\* The four kinds of event on_message dispatches on.
BookEventTypes == {"open", "done", "match", "change"}

\* C11: every in-order event of type open, done, match or change causes exactly
\* one call of on_orderbook_change, also when the book does not change, so
\* that each advance of the sequence by such an event comes with one
\* notification; a stale event causes none.
C11_NotifiedOncePerEvent ==
  [][/\ (InOrder(msg') /\ msg'.type \in BookEventTypes)
          => outcome'.notified = 1
     /\ (Has(msg', "sequence") /\ sequence # -1 /\ msg'.sequence <= sequence)
          => outcome'.notified = 0]_vars

\* The orders of one side of a book as get_current_book lists them.
Orders(side) ==
  {<<side[p][i].price, side[p][i].size, i>> : <<p, i>> \in
     UNION {{<<q, j>> : j \in DOMAIN side[q]} : q \in DOMAIN side}}

Elems(list) == {list[k] : k \in 1 .. Len(list)}

\* C12: what get_bid, get_ask, get_bids and get_asks return while on_message
\* runs in another thread is what they return on the last completed state of
\* the book or on the state the mutation under way completes; the price
\* get_bid or get_ask returns has an order at it, and no returned level is a
\* level of the book emptied but not yet deleted.
C12_NoTornRead ==
  seen.op # "none" =>
    /\ seen.result \in {Query(seen.pre, seen.op, seen.price),
                        Query(seen.post, seen.op, seen.price)}
    /\ seen.op = "get_bid" =>
         \A p \in DOMAIN seen.at.bids : seen.result = Some(p) => DOMAIN seen.at.bids[p] # {}
    /\ seen.op = "get_ask" =>
         \A p \in DOMAIN seen.at.asks : seen.result = Some(p) => DOMAIN seen.at.asks[p] # {}
    /\ (seen.op = "get_bids" /\ Has(seen.at.bids, seen.price)) => DOMAIN seen.result # {}
    /\ (seen.op = "get_asks" /\ Has(seen.at.asks, seen.price)) => DOMAIN seen.result # {}

\* C13: the sequence and the orders a get_current_book call returns are those
\* of one completed state of the book the call overlapped.
C13_BookReadConsistent ==
  (reader.returned /\ reader.result.exc = "none") =>
    \E c \in reader.cands :
      /\ reader.result.sequence = c.sequence
      /\ Elems(reader.result.asks) = Orders(c.asks)
      /\ Elems(reader.result.bids) = Orders(c.bids)

\* C14: once close() was called on the WebsocketClient that feeds the book,
\* no later step changes the book, its sequence or its ticker; a message the
\* listener thread was already waiting for is not applied either.
C14_NoApplyAfterStop ==
  [][client.closing =>
       /\ bids' = bids
       /\ asks' = asks
       /\ sequence' = sequence
       /\ current_ticker' = current_ticker]_vars

\* C20: when the listener thread has left _listen because close() was called,
\* recv returned no data or a frame was not JSON, and has finished, the socket
\* is closed and on_disconnect was called exactly once on every listener; no
\* listener gets a message once on_disconnect was called on one; a frame that
\* is not JSON is delivered to no listener, is recorded in client.error and
\* stops the loop.
C20_ShutdownOnce ==
  [][/\ client'.pc = "done" =>
          /\ client'.ws = "closed"
          /\ \A l \in Listeners : client'.disconnects[l] = 1
     /\ \A l \in Listeners : client'.disconnects[l] <= 1
     /\ (\E l \in Listeners : client.disconnects[l] > 0) =>
          client'.delivered = client.delivered
     /\ (client'.frames # client.frames /\ client'.frame = GarbageFrame) =>
          /\ client'.delivered = client.delivered
          /\ client'.error = "ValueError"
          /\ client'.stop]_vars

\* The thread has finished after a frame that was not JSON ended the loop,
\* with messages delivered before it.
C20_Witness ==
  /\ client.pc = "done"
  /\ client.frame = GarbageFrame
  /\ client.error = "ValueError"
  /\ client.delivered["book"] > 0
  /\ client.ws = "closed"

\* The orders one side of a book holds.
OrdersOf(side) == UNION {{side[p][i] : i \in DOMAIN side[p]} : p \in DOMAIN side}

\* C15: every order the book holds has a size above zero, after a match that
\* trades more than the order has left and after a change to size 0 too.
C15_SizesPositive ==
  \A o \in OrdersOf(bids) \cup OrdersOf(asks) : o.size > 0

\* C16: after every on_message call, and so after every reset_book, no price
\* level of either side is empty: the call that takes the last order off a
\* level deletes the level.
C16_NoEmptyLevel ==
  /\ \A p \in DOMAIN bids : DOMAIN bids[p] # {}
  /\ \A p \in DOMAIN asks : DOMAIN asks[p] # {}

\* The first call loaded the book with an order on every slot and its done
\* event took C, the only order at bid price 2, off the book: the level is gone.
C16_Witness ==
  /\ Len(outcome.loaded) = 1
  /\ Len(outcome.loaded[1].bids) = 3
  /\ outcome.path = "inorder"
  /\ outcome.exc = "none"
  /\ msg.type = "done"
  /\ msg.order_id = "C"
  /\ ~Has(bids, 2)
  /\ Has(bids, 1)

\* The prices of one side at which an order rests.
Resting(side) == {p \in DOMAIN side : DOMAIN side[p] # {}}

\* C17: an in-order match that trades t against a resting order of size r
\* removes the order when t = r, and its level with it when it was the last
\* order there; otherwise the order stays at its price with size r - t.  No
\* other order changes and no other level appears or disappears.
C17_MatchOnRestingOrder ==
  [][(/\ InOrder(msg')
      /\ msg'.type = "match"
      /\ ~LacksRequired(msg')
      /\ ~Misses(msg'.side, msg'.price, msg'.maker_order_id))
       => LET side   == IF msg'.side = "buy" THEN bids ELSE asks
              after  == IF msg'.side = "buy" THEN bids' ELSE asks'
              other  == IF msg'.side = "buy" THEN asks ELSE bids
              otherAfter == IF msg'.side = "buy" THEN asks' ELSE bids'
              p      == Decimal(msg'.price)
              o      == side[p][msg'.maker_order_id]
              t      == Decimal(msg'.size)
              left   == IF t = o.size THEN {} ELSE {[o EXCEPT !.size = o.size - t]}
          IN  /\ OrdersOf(after) = (OrdersOf(side) \ {o}) \cup left
              /\ DOMAIN after = {x.price : x \in OrdersOf(after)}
              /\ Resting(after) = DOMAIN after
              /\ \A q \in DOMAIN after : \A i \in DOMAIN after[q] :
                    after[q][i].id = i /\ after[q][i].price = q
              /\ otherAfter = other]_vars

\* A match of 1 against A, which had 3 left, was applied in order: A stays at
\* bid price 1 with 2 left.
C17_Witness ==
  /\ Len(outcome.loaded) = 1
  /\ Len(outcome.loaded[1].bids) = 3
  /\ outcome.path = "inorder"
  /\ outcome.exc = "none"
  /\ msg.type = "match"
  /\ msg.maker_order_id = "A"
  /\ Has(bids, 1)
  /\ Has(bids[1], "A")
  /\ bids[1]["A"].size = 2

\* A snapshot list as the orders get_current_book is to return.
Listed(entries) == {<<Decimal(e[1]), Decimal(e[2]), e[3]>> : e \in Elems(entries)}

Ascending(list) == \A j \in 1 .. Len(list) : \A k \in j .. Len(list) : list[j][1] <= list[k][1]

Descending(list) == \A j \in 1 .. Len(list) : \A k \in j .. Len(list) : list[j][1] >= list[k][1]

\* C18: when the book holds exactly the snapshot the last call loaded, with
\* the snapshot's sequence, get_current_book returns without an exception the
\* snapshot's sequence and exactly the snapshot's orders as (price, size, id),
\* asks by rising price and bids by falling price, however many orders the
\* snapshot has.
C18_SnapshotRoundTrip ==
  (/\ outcome.loaded # <<>>
   /\ HoldsExactly(snap)
   /\ sequence = snap.sequence)
    => LET r == get_current_book(Self, sequence)
       IN  /\ r.exc = "none"
           /\ r.sequence = snap.sequence
           /\ Elems(r.bids) = Listed(snap.bids)
           /\ Elems(r.asks) = Listed(snap.asks)
           /\ Len(r.bids) = Len(snap.bids)
           /\ Len(r.asks) = Len(snap.asks)
           /\ Ascending(r.asks)
           /\ Descending(r.bids)

Max(S) == CHOOSE p \in S : \A q \in S : q <= p

Min(S) == CHOOSE p \in S : \A q \in S : p <= q

\* C19: get_bid returns the highest price at which a buy order rests, get_ask
\* the lowest price at which a sell order rests, and each returns None exactly
\* when its side holds no order.
C19_BestPrices ==
  /\ get_bid(Self) = (IF OrdersOf(bids) = {} THEN None
                      ELSE Some(Max({o.price : o \in OrdersOf(bids)})))
  /\ get_ask(Self) = (IF OrdersOf(asks) = {} THEN None
                      ELSE Some(Min({o.price : o \in OrdersOf(asks)})))

\* Two bid levels rest and get_bid returns the higher one, while the last sell
\* order has left the book and get_ask returns None.
C19_Witness ==
  /\ DOMAIN bids = {1, 2}
  /\ get_bid(Self) = Some(2)
  /\ snap.asks # <<>>
  /\ asks = EmptyDict
  /\ get_ask(Self) = None

====
